---- MODULE Spec2Model ----
(***************************************************************************)
(* Blogicum (blog/views.py, blog/admin.py): the view functions as one      *)
(* request per step over the tables Post, Comment and Category.  Every     *)
(* step is one request; resp is the response to the latest one.            *)
(***************************************************************************)
EXTENDS Integers, Sequences, FiniteSets, TLC

\* ---------------------------------------------------------------- bounds
MaxPosts == 2           \* posts ever created in a run
MaxComments == 2        \* comments ever created in a run
MaxTime == 1            \* the clock runs over 0..MaxTime
MaxPagePosts == 21      \* rows of the pre-filled Post table of SpecPage
MaxPageNumber == 4      \* largest ?page= number requested in SpecPage

\* ------------------------------------------------------------- constants
per_page == 10

Users == {"u1", "u2"}
Staff == {"u2"}
AnonymousUser == "anon"
Requesters == Users \cup {AnonymousUser}
Usernames == Users \cup {"ghost"}
Categories == {"c1", "c2"}
Methods == {"GET", "POST", "PUT"}
Dates == 0..MaxTime
Texts == {"a", "b"}
PostIds == 1..MaxPosts
CommentIds == 1..MaxComments

\* ?page= as it arrives: absent, a non-numeric string, or the digits of n
NoPage == [t |-> "missing", v |-> 0]
PageOne == {NoPage}
PageParams ==
    {NoPage, [t |-> "text", v |-> 0]}
        \cup {[t |-> "int", v |-> n] : n \in (0 - 1)..MaxPageNumber}

VARIABLES posts, comments, categories, now, nextPostId, nextCommentId, resp

vars == <<posts, comments, categories, now, nextPostId, nextCommentId, resp>>
db == <<posts, comments, categories, now, nextPostId, nextCommentId>>

\* ------------------------------------------------------------- responses
\* A response: the request it answers (op, user, method, URL arguments, ?page=,
\* the author and post named in the submitted data) and what the view returned.
Response(op, user, method) ==
    [op |-> op, user |-> user, method |-> method, kind |-> "none", name |-> "",
     post_id |-> 0, comment_id |-> 0, slug |-> "", username |-> "",
     page |-> NoPage, number |-> 0, num_pages |-> 0, items |-> <<>>,
     comments |-> {}, created |-> 0, form_author |-> "", form_post |-> 0]

\* between two requests: the last response has been sent, none is pending
Idle == Response("none", AnonymousUser, "GET")

render(r, template) == [r EXCEPT !.kind = "render", !.name = template]

redirect(r, to) == [r EXCEPT !.kind = "redirect", !.name = to]

Http404(r) == [r EXCEPT !.kind = "not_found"]

HttpResponseNotAllowed(r) == [r EXCEPT !.kind = "not_allowed"]

\* @login_required: an anonymous request is sent to the login page
login_required(r) == redirect(r, "login")

\* @require_http_methods(['GET', 'POST'])
require_http_methods == {"GET", "POST"}

\* ----------------------------------------------------------------- forms
InvalidPostForm ==
    [valid |-> FALSE, category |-> "c1", is_published |-> FALSE,
     pub_date |-> 0, author |-> "u1"]

\* submitted post data; author is a key the client may add to it
PostForms ==
    {InvalidPostForm}
        \cup [valid : {TRUE}, category : Categories, is_published : BOOLEAN,
              pub_date : Dates, author : Users]

InvalidCommentForm == [valid |-> FALSE, text |-> "a", author |-> "u1", post |-> 1]

\* submitted comment data; author and post are keys the client may add to it
CommentForms ==
    {InvalidCommentForm}
        \cup [valid : {TRUE}, text : Texts, author : Users, post : PostIds]

\* request.POST or None: only a POST request carries form data
request_POST(method, forms, empty) == IF method = "POST" THEN forms ELSE {empty}

\* PostForm.save: the form's fields onto the instance; author is no form field
PostFormSave(instance, form) ==
    [instance EXCEPT !.category = form.category,
                     !.is_published = form.is_published,
                     !.pub_date = form.pub_date]

\* CommentForm.save: text is the only form field
CommentFormSave(instance, form) == [instance EXCEPT !.text = form.text]

NewPost == [author |-> "", category |-> "", is_published |-> FALSE, pub_date |-> 0]

NewComment == [author |-> "", post |-> 0, text |-> ""]

\* post_create: form.save(commit=False); post.author = request.user
created_post(user, form) == [PostFormSave(NewPost, form) EXCEPT !.author = user]

created_comment_forged(user, post_id, form) ==
    [CommentFormSave(NewComment, form)
        EXCEPT !.post = post_id, !.author = form.author]

\* add_comment: form.save(commit=False); comment.post = post;
\* comment.author = request.user
created_comment(user, post_id, form) ==
    [CommentFormSave(NewComment, form) EXCEPT !.post = post_id, !.author = user]

\* -------------------------------------------------------------- querysets
PublishedFilter_NoDate(p) ==
    /\ posts[p].is_published
    /\ categories[posts[p].category].is_published

\* the filter of get_posts_with_comment_count
PublishedFilter(p) ==
    /\ posts[p].is_published
    /\ categories[posts[p].category].is_published
    /\ posts[p].pub_date <= now

DetailFilter_NoCategory(p) ==
    /\ posts[p].is_published
    /\ posts[p].pub_date <= now

\* the filter of post_detail's second lookup
DetailFilter(p) ==
    /\ posts[p].is_published
    /\ categories[posts[p].category].is_published
    /\ posts[p].pub_date <= now

\* Post._meta.ordering: newest first, equal dates by id
Precedes(a, b) ==
    \/ posts[a].pub_date > posts[b].pub_date
    \/ posts[a].pub_date = posts[b].pub_date /\ a < b

RECURSIVE order_by(_)
order_by(S) ==
    IF S = {}
    THEN <<>>
    ELSE LET first == CHOOSE a \in S : \A b \in S \ {a} : Precedes(a, b)
         IN  <<first>> \o order_by(S \ {first})

Count_AllRows(p) == Cardinality(DOMAIN comments)

\* Count('comments'): the rows of Comment joined to post p
Count(p) == Cardinality({c \in DOMAIN comments : comments[c].post = p})

get_posts_with_comment_count(queryset, filter_published) ==
    LET filtered == IF filter_published
                    THEN {p \in queryset : PublishedFilter(p)}
                    ELSE queryset
        ordered == order_by(filtered)
    IN  [i \in 1..Len(ordered) |->
            [id |-> ordered[i], comment_count |-> Count(ordered[i])]]

\* Paginator(queryset, per_page).num_pages
num_pages(count) ==
    IF count = 0 THEN 1 ELSE (count + per_page - 1) \div per_page

page_number_FirstWhenOutOfRange(param, count) ==
    IF param.t # "int"
    THEN 1
    ELSE IF param.v < 1 \/ param.v > num_pages(count) THEN 1 ELSE param.v

\* Paginator.get_page's number: not an integer -> 1, out of range -> last
page_number(param, count) ==
    IF param.t # "int"
    THEN 1
    ELSE IF param.v < 1 \/ param.v > num_pages(count)
         THEN num_pages(count)
         ELSE param.v

\* Paginator.page(number).object_list
object_list(list, number) ==
    LET bottom == (number - 1) * per_page
        top == IF bottom + per_page >= Len(list) THEN Len(list)
               ELSE bottom + per_page
    IN  SubSeq(list, bottom + 1, top)

get_page_obj(r, queryset, param) ==
    LET number == page_number(param, Len(queryset))
    IN  [r EXCEPT !.page = param,
                  !.number = number,
                  !.num_pages = num_pages(Len(queryset)),
                  !.items = object_list(queryset, number)]

\* ------------------------------------------------- the views that only read
index_queryset_Unfiltered(user) == get_posts_with_comment_count(DOMAIN posts, FALSE)

index_queryset(user) == get_posts_with_comment_count(DOMAIN posts, TRUE)

index_response(user, page) ==
    render(get_page_obj(Response("index", user, "GET"), index_queryset(user), page),
           "blog/index.html")

post_detail_response(user, id) ==
    LET r == [Response("post_detail", user, "GET") EXCEPT !.post_id = id]
    IN  IF id \notin DOMAIN posts
        THEN Http404(r)
        ELSE IF user # posts[id].author /\ ~DetailFilter(id)
             THEN Http404(r)
             ELSE render([r EXCEPT !.comments =
                             {c \in DOMAIN comments : comments[c].post = id}],
                         "blog/detail.html")

category_queryset(category_slug) ==
    get_posts_with_comment_count(
        {p \in DOMAIN posts : posts[p].category = category_slug}, TRUE)

category_posts_response(user, category_slug, page) ==
    LET r == [Response("category_posts", user, "GET") EXCEPT !.slug = category_slug]
    IN  IF ~categories[category_slug].is_published
        THEN Http404(r)
        ELSE render(get_page_obj(r, category_queryset(category_slug), page),
                    "blog/category.html")

profile_filter_published_Always(user, username) == TRUE

\* filter_published = request.user != user
profile_filter_published(user, username) == user # username

profile_queryset(user, username) ==
    get_posts_with_comment_count(
        {p \in DOMAIN posts : posts[p].author = username},
        profile_filter_published(user, username))

profile_response(user, username, page) ==
    LET r == [Response("profile", user, "GET") EXCEPT !.username = username]
    IN  IF username \notin Users
        THEN Http404(r)
        ELSE render(get_page_obj(r, profile_queryset(user, username), page),
                    "blog/profile.html")

\* ------------------------------------------------------------------ views
TypeOK ==
    /\ DOMAIN posts \subseteq 1..(nextPostId - 1)
    /\ DOMAIN comments \subseteq 1..(nextCommentId - 1)
    /\ now \in Dates

Init ==
    /\ posts = <<>>
    /\ comments = <<>>
    /\ categories = [c \in Categories |-> [is_published |-> TRUE]]
    /\ now = 0
    /\ nextPostId = 1
    /\ nextCommentId = 1
    /\ resp = Idle

index(user, page) ==
    /\ resp = Idle
    /\ resp' = index_response(user, page)
    /\ UNCHANGED db

post_detail(user, id) ==
    /\ resp = Idle
    /\ resp' = post_detail_response(user, id)
    /\ UNCHANGED db

category_posts(user, category_slug, page) ==
    /\ resp = Idle
    /\ resp' = category_posts_response(user, category_slug, page)
    /\ UNCHANGED db

profile(user, username, page) ==
    /\ resp = Idle
    /\ resp' = profile_response(user, username, page)
    /\ UNCHANGED db

post_create(user, forms) ==
    /\ resp = Idle
    /\ \E method \in Methods :
           LET r == Response("post_create", user, method)
           IN  IF user = AnonymousUser
               THEN resp' = login_required(r) /\ UNCHANGED db
               ELSE \E form \in request_POST(method, forms, InvalidPostForm) :
                    IF form.valid
                    THEN /\ nextPostId <= MaxPosts
                         /\ posts' = (nextPostId :> created_post(user, form)) @@ posts
                         /\ nextPostId' = nextPostId + 1
                         /\ resp' = redirect([r EXCEPT !.created = nextPostId,
                                                       !.form_author = form.author,
                                                       !.username = user],
                                             "blog:profile")
                         /\ UNCHANGED <<comments, categories, now, nextCommentId>>
                    ELSE resp' = render(r, "blog/create.html") /\ UNCHANGED db

post_edit_not_author_Never(user, post_id) == FALSE

\* post_edit: if post.author != request.user
post_edit_not_author(user, post_id) == posts[post_id].author # user

post_edit(user, post_id, forms) ==
    /\ resp = Idle
    /\ \E method \in Methods :
           LET r == [Response("post_edit", user, method) EXCEPT !.post_id = post_id]
           IN  IF user = AnonymousUser
               THEN resp' = login_required(r) /\ UNCHANGED db
               ELSE IF post_id \notin DOMAIN posts
               THEN resp' = Http404(r) /\ UNCHANGED db
               ELSE IF post_edit_not_author(user, post_id)
               THEN resp' = redirect(r, "blog:post_detail") /\ UNCHANGED db
               ELSE \E form \in request_POST(method, forms, InvalidPostForm) :
                    IF form.valid
                    THEN /\ posts' = [posts EXCEPT
                                         ![post_id] = PostFormSave(posts[post_id], form)]
                         /\ resp' = redirect(r, "blog:post_detail")
                         /\ UNCHANGED <<comments, categories, now, nextPostId,
                                        nextCommentId>>
                    ELSE resp' = render(r, "blog/create.html") /\ UNCHANGED db

\* Post.delete(): the row and, by the foreign key Comment.post, its comments
PostDelete(post_id) ==
    /\ posts' = [p \in DOMAIN posts \ {post_id} |-> posts[p]]
    /\ comments' = [c \in {d \in DOMAIN comments : comments[d].post # post_id}
                        |-> comments[c]]

post_delete_confirmed_OnGet(method) == TRUE

\* post_delete: if request.method == 'POST'
post_delete_confirmed(method) == method = "POST"

post_delete(user, post_id) ==
    /\ resp = Idle
    /\ \E method \in Methods :
           LET r == [Response("post_delete", user, method) EXCEPT !.post_id = post_id]
           IN  IF user = AnonymousUser
               THEN resp' = login_required(r) /\ UNCHANGED db
               ELSE IF method \notin require_http_methods
               THEN resp' = HttpResponseNotAllowed(r) /\ UNCHANGED db
               ELSE IF post_id \notin DOMAIN posts
               THEN resp' = Http404(r) /\ UNCHANGED db
               ELSE IF posts[post_id].author # user
               THEN resp' = redirect(r, "blog:post_detail") /\ UNCHANGED db
               ELSE IF post_delete_confirmed(method)
                    THEN /\ PostDelete(post_id)
                         /\ resp' = redirect([r EXCEPT !.username = user],
                                             "blog:profile")
                         /\ UNCHANGED <<categories, now, nextPostId, nextCommentId>>
                    ELSE resp' = render(r, "blog/create.html") /\ UNCHANGED db

add_comment(user, post_id) ==
    /\ resp = Idle
    /\ \E method \in Methods :
           LET r == [Response("add_comment", user, method) EXCEPT !.post_id = post_id]
           IN  IF user = AnonymousUser
               THEN resp' = login_required(r) /\ UNCHANGED db
               ELSE IF post_id \notin DOMAIN posts
               THEN resp' = Http404(r) /\ UNCHANGED db
               ELSE \E form \in request_POST(method, CommentForms, InvalidCommentForm) :
                    IF form.valid
                    THEN /\ nextCommentId <= MaxComments
                         /\ comments' =
                                (nextCommentId :> created_comment(user, post_id, form))
                                    @@ comments
                         /\ nextCommentId' = nextCommentId + 1
                         /\ resp' = redirect([r EXCEPT !.created = nextCommentId,
                                                       !.form_author = form.author,
                                                       !.form_post = form.post],
                                             "blog:post_detail")
                         /\ UNCHANGED <<posts, categories, now, nextPostId>>
                    ELSE resp' = redirect(r, "blog:post_detail") /\ UNCHANGED db

\* get_object_or_404(Comment, id=comment_id, post_id=post_id) finds no row
comment_missing(post_id, comment_id) ==
    \/ comment_id \notin DOMAIN comments
    \/ comments[comment_id].post # post_id

edit_comment(user, post_id, comment_id) ==
    /\ resp = Idle
    /\ \E method \in Methods :
           LET r == [Response("edit_comment", user, method)
                        EXCEPT !.post_id = post_id, !.comment_id = comment_id]
           IN  IF user = AnonymousUser
               THEN resp' = login_required(r) /\ UNCHANGED db
               ELSE IF comment_missing(post_id, comment_id)
               THEN resp' = Http404(r) /\ UNCHANGED db
               ELSE IF comments[comment_id].author # user
               THEN resp' = redirect(r, "blog:post_detail") /\ UNCHANGED db
               ELSE \E form \in request_POST(method, CommentForms, InvalidCommentForm) :
                    IF form.valid
                    THEN /\ comments' =
                                [comments EXCEPT ![comment_id] =
                                    CommentFormSave(comments[comment_id], form)]
                         /\ resp' = redirect(r, "blog:post_detail")
                         /\ UNCHANGED <<posts, categories, now, nextPostId,
                                        nextCommentId>>
                    ELSE resp' = render(r, "blog/comment.html") /\ UNCHANGED db

delete_comment(user, post_id, comment_id) ==
    /\ resp = Idle
    /\ \E method \in Methods :
           LET r == [Response("delete_comment", user, method)
                        EXCEPT !.post_id = post_id, !.comment_id = comment_id]
           IN  IF user = AnonymousUser
               THEN resp' = login_required(r) /\ UNCHANGED db
               ELSE IF method \notin require_http_methods
               THEN resp' = HttpResponseNotAllowed(r) /\ UNCHANGED db
               ELSE IF comment_missing(post_id, comment_id)
               THEN resp' = Http404(r) /\ UNCHANGED db
               ELSE IF comments[comment_id].author # user
               THEN resp' = redirect(r, "blog:post_detail") /\ UNCHANGED db
               ELSE IF method = "POST"
                    THEN /\ comments' = [c \in DOMAIN comments \ {comment_id}
                                            |-> comments[c]]
                         /\ resp' = redirect(r, "blog:post_detail")
                         /\ UNCHANGED <<posts, categories, now, nextPostId,
                                        nextCommentId>>
                    ELSE resp' = render(r, "blog/comment.html") /\ UNCHANGED db

\* ------------------------------------------------------------------ admin
\* PostAdmin, list_editable = ('is_published',): staff set the flag in the list
PostAdmin(user, post_id, flag) ==
    /\ resp = Idle
    /\ user \in Staff
    /\ post_id \in DOMAIN posts
    /\ posts' = [posts EXCEPT ![post_id].is_published = flag]
    /\ resp' = redirect([Response("PostAdmin", user, "POST") EXCEPT !.post_id = post_id],
                        "admin:blog_post_changelist")
    /\ UNCHANGED <<comments, categories, now, nextPostId, nextCommentId>>

\* CategoryAdmin, list_editable = ('is_published',)
CategoryAdmin(user, slug, flag) ==
    /\ resp = Idle
    /\ user \in Staff
    /\ categories' = [categories EXCEPT ![slug].is_published = flag]
    /\ resp' = redirect([Response("CategoryAdmin", user, "POST") EXCEPT !.slug = slug],
                        "admin:blog_category_changelist")
    /\ UNCHANGED <<posts, comments, now, nextPostId, nextCommentId>>

\* timezone.now() moves on between requests
Tick ==
    /\ resp = Idle
    /\ now < MaxTime
    /\ now' = now + 1
    /\ UNCHANGED <<posts, comments, categories, nextPostId, nextCommentId, resp>>

\* the response goes out; the server waits for the next request
Respond ==
    /\ resp # Idle
    /\ resp' = Idle
    /\ UNCHANGED db

Next ==
    \/ \E u \in Requesters, pg \in PageOne : index(u, pg)
    \/ \E u \in Requesters, id \in PostIds : post_detail(u, id)
    \/ \E u \in Requesters, s \in Categories, pg \in PageOne : category_posts(u, s, pg)
    \/ \E u \in Requesters, n \in Usernames, pg \in PageOne : profile(u, n, pg)
    \/ \E u \in Requesters : post_create(u, PostForms)
    \/ \E u \in Requesters, id \in PostIds : post_edit(u, id, PostForms)
    \/ \E u \in Requesters, id \in PostIds : post_delete(u, id)
    \/ \E u \in Requesters, id \in PostIds : add_comment(u, id)
    \/ \E u \in Requesters, id \in PostIds, c \in CommentIds : edit_comment(u, id, c)
    \/ \E u \in Requesters, id \in PostIds, c \in CommentIds : delete_comment(u, id, c)
    \/ \E u \in Users, id \in PostIds, f \in BOOLEAN : PostAdmin(u, id, f)
    \/ \E u \in Users, s \in Categories, f \in BOOLEAN : CategoryAdmin(u, s, f)
    \/ Tick
    \/ Respond

Spec == Init /\ [][Next]_vars

\* The requests that read or write posts: no comment is ever written, so the
\* Comment table stays empty and the Post table takes every reachable value.
NextPosts ==
    \/ \E u \in Requesters, pg \in PageOne : index(u, pg)
    \/ \E u \in Requesters, id \in PostIds : post_detail(u, id)
    \/ \E u \in Requesters, s \in Categories, pg \in PageOne : category_posts(u, s, pg)
    \/ \E u \in Requesters, n \in Usernames, pg \in PageOne : profile(u, n, pg)
    \/ \E u \in Requesters : post_create(u, PostForms)
    \/ \E u \in Requesters, id \in PostIds : post_edit(u, id, PostForms)
    \/ \E u \in Requesters, id \in PostIds : post_delete(u, id)
    \/ \E u \in Users, id \in PostIds, f \in BOOLEAN : PostAdmin(u, id, f)
    \/ \E u \in Users, s \in Categories, f \in BOOLEAN : CategoryAdmin(u, s, f)
    \/ Tick
    \/ Respond

SpecPosts == Init /\ [][NextPosts]_vars

\* Every view, with the submitted post forms narrowed to one category and the
\* categories left as created.
CommentSpecPostForms ==
    {f \in PostForms : f.category = "c1"}

NextComments ==
    \/ \E u \in Requesters, pg \in PageOne : index(u, pg)
    \/ \E u \in Requesters, id \in PostIds : post_detail(u, id)
    \/ \E u \in Requesters, s \in Categories, pg \in PageOne : category_posts(u, s, pg)
    \/ \E u \in Requesters, n \in Usernames, pg \in PageOne : profile(u, n, pg)
    \/ \E u \in Requesters : post_create(u, CommentSpecPostForms)
    \/ \E u \in Requesters, id \in PostIds : post_edit(u, id, CommentSpecPostForms)
    \/ \E u \in Requesters, id \in PostIds : post_delete(u, id)
    \/ \E u \in Requesters, id \in PostIds : add_comment(u, id)
    \/ \E u \in Requesters, id \in PostIds, c \in CommentIds : edit_comment(u, id, c)
    \/ \E u \in Requesters, id \in PostIds, c \in CommentIds : delete_comment(u, id, c)
    \/ \E u \in Users, id \in PostIds, f \in BOOLEAN : PostAdmin(u, id, f)
    \/ Tick
    \/ Respond

SpecComments == Init /\ [][NextComments]_vars

\* The listing views over a Post table of n rows, every ?page= requested.
PageRow(i, mixed) ==
    IF mixed
    THEN [author |-> IF i % 3 = 0 THEN "u2" ELSE "u1",
          category |-> IF i % 2 = 0 THEN "c1" ELSE "c2",
          is_published |-> (i % 4 # 0),
          pub_date |-> i % (MaxTime + 1)]
    ELSE [author |-> "u1", category |-> "c1", is_published |-> TRUE,
          pub_date |-> i % (MaxTime + 1)]

InitPage ==
    \E n \in 0..MaxPagePosts, mixed \in BOOLEAN :
        /\ posts = [i \in 1..n |-> PageRow(i, mixed)]
        /\ comments = <<>>
        /\ categories = [c \in Categories |-> [is_published |-> TRUE]]
        /\ now = MaxTime
        /\ nextPostId = n + 1
        /\ nextCommentId = 1
        /\ resp = Idle

NextPage ==
    \/ \E u \in Requesters, pg \in PageParams : index(u, pg)
    \/ \E u \in Requesters, s \in Categories, pg \in PageParams :
           category_posts(u, s, pg)
    \/ \E u \in Requesters, n \in Usernames, pg \in PageParams : profile(u, n, pg)
    \/ Respond

SpecPage == InitPage /\ [][NextPage]_vars

\* ================================================================= claims
ListingOps == {"index", "category_posts", "profile"}

\* the posts on the page a response carries
Shown(r) == {r.items[i].id : i \in 1..Len(r.items)}

\* visible to the public: is_published, category.is_published, pub_date <= now
PubliclyVisible(p) ==
    /\ posts[p].is_published
    /\ categories[posts[p].category].is_published
    /\ posts[p].pub_date <= now

IntPage(n) == [t |-> "int", v |-> n]

\* C1: a listing view (index, category_posts, profile) shows a post to a
\* requester who is not its author, anonymous included, only if the post is
\* publicly visible at the time of the request.
C1_ListingsShowOthersOnlyVisible ==
    resp.op \in ListingOps =>
        \A p \in Shown(resp) :
            /\ p \in DOMAIN posts
            /\ posts[p].author # resp.user => PubliclyVisible(p)

\* a user looks at another user's profile: one post is listed, one is held back
C1_Witness ==
    /\ resp.op = "profile"
    /\ resp.kind = "render"
    /\ resp.user # resp.username
    /\ Shown(resp) # {}
    /\ \E p \in DOMAIN posts : posts[p].author = resp.username /\ p \notin Shown(resp)

\* C2: post_detail asked by anyone but the post's author renders the post iff it
\* exists and is publicly visible; otherwise the answer is not-found and carries
\* no post data.
C2_DetailForOthers ==
    (/\ resp.op = "post_detail"
     /\ \/ resp.post_id \notin DOMAIN posts
        \/ posts[resp.post_id].author # resp.user)
        => IF resp.post_id \in DOMAIN posts /\ PubliclyVisible(resp.post_id)
           THEN resp.kind = "render" /\ resp.name = "blog/detail.html"
           ELSE resp.kind = "not_found" /\ resp.name = "" /\ resp.comments = {}

\* a logged-in user who is not the author asks for an existing hidden post
C2_Witness ==
    /\ resp.op = "post_detail"
    /\ resp.kind = "not_found"
    /\ resp.user \in Users
    /\ resp.post_id \in DOMAIN posts
    /\ posts[resp.post_id].is_published
    /\ categories[posts[resp.post_id].category].is_published

\* C3: whatever is_published, category.is_published and pub_date are, the author's
\* post_detail request renders the post, and the author's own profile listing
\* has the post on one of its pages.
C3_AuthorSeesOwnPost ==
    /\ (/\ resp.op = "post_detail"
        /\ resp.post_id \in DOMAIN posts
        /\ posts[resp.post_id].author = resp.user)
           => resp.kind = "render" /\ resp.name = "blog/detail.html"
    /\ (resp.op = "profile" /\ resp.user = resp.username)
           => /\ resp.kind = "render"
              /\ \A p \in DOMAIN posts :
                     posts[p].author = resp.user =>
                         \E n \in 1..resp.num_pages :
                             p \in Shown(profile_response(resp.user, resp.user,
                                                          IntPage(n)))
              /\ resp.num_pages = 1 =>
                     \A p \in DOMAIN posts :
                         posts[p].author = resp.user => p \in Shown(resp)

\* the author's own profile lists a post that is unpublished, future-dated and
\* in an unpublished category
C3_Witness ==
    /\ resp.op = "profile"
    /\ resp.user = resp.username
    /\ \E p \in Shown(resp) :
           /\ ~posts[p].is_published
           /\ ~categories[posts[p].category].is_published
           /\ posts[p].pub_date > now

\* C5 as stated: the author's request to index, or to category_posts for the
\* post's category, includes the author's post whatever its flags and date.
C5_AuthorSeesOwnPostInIndexAndCategory ==
    /\ resp.op = "index" =>
           \A p \in DOMAIN posts :
               posts[p].author = resp.user =>
                   \E n \in 1..resp.num_pages :
                       p \in Shown(index_response(resp.user, IntPage(n)))
    /\ resp.op = "category_posts" =>
           \A p \in DOMAIN posts :
               (posts[p].author = resp.user /\ posts[p].category = resp.slug) =>
                   /\ resp.kind = "render"
                   /\ \E n \in 1..resp.num_pages :
                          p \in Shown(category_posts_response(resp.user, resp.slug,
                                                              IntPage(n)))

\* C5, amended: index and category_posts treat the author like anyone else; the
\* author's post is on one of their pages iff it is publicly visible.
C5_AuthorSeesOwnPostIffVisible ==
    /\ resp.op = "index" =>
           \A p \in DOMAIN posts :
               posts[p].author = resp.user =>
                   ((\E n \in 1..resp.num_pages :
                        p \in Shown(index_response(resp.user, IntPage(n))))
                    <=> PubliclyVisible(p))
    /\ resp.op = "category_posts" =>
           \A p \in DOMAIN posts :
               (posts[p].author = resp.user /\ posts[p].category = resp.slug) =>
                   ((/\ resp.kind = "render"
                     /\ \E n \in 1..resp.num_pages :
                            p \in Shown(category_posts_response(resp.user, resp.slug,
                                                                IntPage(n))))
                    <=> PubliclyVisible(p))

\* the author opens the index while one of their posts is hidden: it is not listed
C5_Witness ==
    /\ resp.op = "index"
    /\ \E p \in DOMAIN posts :
           /\ posts[p].author = resp.user
           /\ ~PubliclyVisible(p)
           /\ p \notin Shown(resp)
    /\ \E p \in DOMAIN posts : posts[p].author = resp.user /\ p \in Shown(resp)

\* C6: the comment_count that index, category_posts and profile attach to a post
\* is the number of comments existing for that post when the request is served,
\* after any sequence of add_comment, delete_comment and post_delete.
C6_CommentCountIsCurrent ==
    resp.op \in ListingOps =>
        \A i \in 1..Len(resp.items) :
            resp.items[i].comment_count =
                Cardinality({c \in DOMAIN comments :
                                comments[c].post = resp.items[i].id})

\* a listing of two posts, one commented and one not, after a comment was deleted
C6_Witness ==
    /\ resp.op \in ListingOps
    /\ Cardinality(DOMAIN comments) < nextCommentId - 1
    /\ \E i, j \in 1..Len(resp.items) :
           resp.items[i].comment_count = 1 /\ resp.items[j].comment_count = 0

\* C8 as stated: add_comment creates a comment only on a post the requester may
\* view: a publicly visible post, or the requester's own.
C8_CommentOnlyOnViewablePost ==
    (resp.op = "add_comment" /\ resp.created # 0) =>
        \/ PubliclyVisible(resp.post_id)
        \/ posts[resp.post_id].author = resp.user

\* C9: a post made by post_create has the requester as author; a comment made by
\* add_comment has the requester as author and the post of the URL as post,
\* whatever the submitted data names; every comment belongs to one existing post
\* and one user.
C9_AuthorshipNotForged ==
    /\ (resp.op = "post_create" /\ resp.created # 0)
           => /\ resp.created \in DOMAIN posts
              /\ posts[resp.created].author = resp.user
    /\ (resp.op = "add_comment" /\ resp.created # 0)
           => /\ resp.created \in DOMAIN comments
              /\ comments[resp.created].author = resp.user
              /\ comments[resp.created].post = resp.post_id
    /\ \A c \in DOMAIN comments :
           comments[c].post \in DOMAIN posts /\ comments[c].author \in Users
    /\ \A p \in DOMAIN posts : posts[p].author \in Users

\* a comment was created from data naming another author and another post
C9_Witness ==
    /\ resp.op = "add_comment"
    /\ resp.created # 0
    /\ resp.form_author # resp.user
    /\ resp.form_post # resp.post_id

DeleteOps == {"post_delete", "delete_comment"}

PostChanged(p) == p \notin DOMAIN posts' \/ posts'[p] # posts[p]

CommentChanged(c) == c \notin DOMAIN comments' \/ comments'[c] # comments[c]

PostOps == {"post_edit", "post_delete"}

CommentOps == {"edit_comment", "delete_comment"}

\* C4 as stated, read over the requests to the blog's views with the methods GET
\* and POST: a post is changed or deleted only by a post_edit/post_delete request
\* of its author, a comment only by an edit_comment/delete_comment request of its
\* author; a request by anyone else for an existing post or comment changes
\* nothing and is answered with a redirect.
C4_OnlyTheAuthorChanges ==
    [][LET r == resp'
       IN  (r.op # "PostAdmin" /\ r.method \in {"GET", "POST"}) =>
           /\ \A p \in DOMAIN posts :
                  PostChanged(p) => r.op \in PostOps /\ r.user = posts[p].author
           /\ \A c \in DOMAIN comments :
                  CommentChanged(c) =>
                      r.op \in CommentOps /\ r.user = comments[c].author
           /\ (/\ r.op \in PostOps
               /\ r.post_id \in DOMAIN posts
               /\ posts[r.post_id].author # r.user)
                  => posts' = posts /\ comments' = comments /\ r.kind = "redirect"
           /\ (/\ r.op \in CommentOps
               /\ ~comment_missing(r.post_id, r.comment_id)
               /\ comments[r.comment_id].author # r.user)
                  => posts' = posts /\ comments' = comments /\ r.kind = "redirect"
      ]_vars

\* C4, amended: through the blog views a post is changed or deleted only by its
\* author's post_edit/post_delete, a comment is changed only by its author's
\* edit_comment and deleted only by its author's delete_comment or, with its post,
\* by the post author's post_delete; staff may set a post's is_published in the
\* admin list.  A request by anyone else to these views, for an existing post or
\* an existing comment of the URL's post, changes nothing and is answered with a
\* redirect, or with method-not-allowed when a logged-in user sends post_delete or
\* delete_comment another method than GET or POST.
C4_OnlyTheAuthorChangesOrCascade ==
    [][LET r == resp'
       IN  /\ \A p \in DOMAIN posts :
                  PostChanged(p) =>
                      \/ r.op \in PostOps /\ r.post_id = p /\ r.user = posts[p].author
                      \/ /\ r.op = "PostAdmin"
                         /\ r.user \in Staff
                         /\ p \in DOMAIN posts'
                         /\ posts'[p] = [posts[p] EXCEPT
                                            !.is_published = posts'[p].is_published]
           /\ \A c \in DOMAIN comments :
                  CommentChanged(c) =>
                      \/ /\ r.op \in CommentOps
                         /\ r.comment_id = c
                         /\ r.user = comments[c].author
                      \/ /\ r.op = "post_delete"
                         /\ r.post_id = comments[c].post
                         /\ r.user = posts[r.post_id].author
                         /\ c \notin DOMAIN comments'
           /\ (/\ \/ /\ r.op \in PostOps
                     /\ r.post_id \in DOMAIN posts
                     /\ posts[r.post_id].author # r.user
                  \/ /\ r.op \in CommentOps
                     /\ ~comment_missing(r.post_id, r.comment_id)
                     /\ comments[r.comment_id].author # r.user)
                  => /\ posts' = posts
                     /\ comments' = comments
                     /\ IF /\ r.user # AnonymousUser
                           /\ r.op \in DeleteOps
                           /\ r.method \notin {"GET", "POST"}
                        THEN r.kind = "not_allowed"
                        ELSE r.kind = "redirect"
      ]_vars

\* a logged-in user who is not the author POSTs to post_edit: a redirect
C4_Witness ==
    /\ resp.op = "post_edit"
    /\ resp.method = "POST"
    /\ resp.user \in Users
    /\ resp.kind = "redirect"
    /\ resp.post_id \in DOMAIN posts
    /\ posts[resp.post_id].author # resp.user
    /\ \E c \in DOMAIN comments : comments[c].author = resp.user

\* the filtered, ordered listing a listing response pages through
Listing(r) ==
    CASE r.op = "index" -> index_queryset(r.user)
      [] r.op = "category_posts" -> category_queryset(r.slug)
      [] r.op = "profile" -> profile_queryset(r.user, r.username)

\* page n of the same view for the same requester
PageOf(r, n) ==
    CASE r.op = "index" -> index_response(r.user, IntPage(n)).items
      [] r.op = "category_posts" ->
             category_posts_response(r.user, r.slug, IntPage(n)).items
      [] r.op = "profile" -> profile_response(r.user, r.username, IntPage(n)).items

RECURSIVE PagesUpTo(_, _)
PagesUpTo(r, n) == IF n = 0 THEN <<>> ELSE PagesUpTo(r, n - 1) \o PageOf(r, n)

\* the posts a listing view selects for its requester
Selected(r) ==
    {p \in DOMAIN posts :
        /\ r.op = "category_posts" => posts[p].category = r.slug
        /\ r.op = "profile" => posts[p].author = r.username
        /\ PubliclyVisible(p) \/ (r.op = "profile" /\ r.user = r.username)}

\* C7: every page of index, category_posts and profile holds at most 10 posts;
\* pages 1..N in order are the filtered, ordered listing, each post once; a
\* missing or non-numeric ?page= gives page 1 and a number beyond N gives page N.
C7_PaginationPartitions ==
    (resp.op \in ListingOps /\ resp.kind = "render") =>
        LET L == Listing(resp)
            N == IF Len(L) = 0 THEN 1 ELSE ((Len(L) - 1) \div 10) + 1
        IN  /\ Len(resp.items) <= 10
            /\ \A n \in 1..N : Len(PageOf(resp, n)) <= 10
            /\ PagesUpTo(resp, N) = L
            /\ {L[i].id : i \in 1..Len(L)} = Selected(resp)
            /\ \A i, j \in 1..Len(L) : L[i].id = L[j].id => i = j
            /\ resp.num_pages = N
            /\ resp.items = PageOf(resp, resp.number)
            /\ resp.page.t # "int" => resp.number = 1
            /\ (resp.page.t = "int" /\ resp.page.v > N) => resp.number = N
            /\ (resp.page.t = "int" /\ resp.page.v \in 1..N) => resp.number = resp.page.v

\* ?page=4 of a three-page profile: the third page, with the one post left for it
C7_Witness ==
    /\ resp.op = "profile"
    /\ resp.kind = "render"
    /\ resp.page = IntPage(4)
    /\ resp.num_pages = 3
    /\ resp.number = 3
    /\ Len(resp.items) = 1

====
